---- MODULE Spec2Model ----
(***************************************************************************)
(* tmuxer: project discovery and tmux session orchestration.               *)
(*                                                                         *)
(* Two revisions of the program are present in the source tree:            *)
(*   rev = "part"  src/unnamed/part_000                                    *)
(*   rev = "main"  src/main.go                                             *)
(* They share main, loadConfig, mergeFlagsWithConfig and normalizePath and *)
(* differ in the walk callback of findProjectDirectories, in the trailing  *)
(* sort, and in how startOrAttachToTmux attaches.                          *)
(*                                                                         *)
(* Encoding of strings.  A path is a sequence of segments and a segment a *)
(* sequence of tokens: the glob metacharacters * ? [ ] { } , one by one,   *)
(* and each maximal run of other characters as one token, so the directory *)
(* name code is the segment <<"code">>.  A path string as typed by the     *)
(* user is [pre, segs]: pre is its leading "~", "$HOME" or "/", or "" for  *)
(* a relative path, and segs the segments after it.                        *)
(***************************************************************************)
EXTENDS Integers, Sequences, FiniteSets, TLC

VARIABLES
    rev,          \* which revision of the source runs
    homeOK,       \* os.UserHomeDir succeeds ($HOME is set)
    cwdOK,        \* os.Getwd succeeds
    TMUX,         \* os.Getenv("TMUX") != ""
    cfgFile,      \* the file at the config path: "missing", "invalid", "ok"
    configPath,   \* value of --config
    fileBases,    \* the `base` list of the YAML file
    projectBase,  \* values of --base
    pc,           \* position of the process
    config,       \* config.ProjectBase
    baseIdx,      \* index of the base pattern being walked
    walk,         \* the walk in progress: base, pattern, patternUsed, todo
    ret,          \* map FullPath -> Project of findProjectDirectories
    walkErrs,     \* indices of base patterns whose GlobWalk returned an error
    projects,     \* result slice of findProjectDirectories
    project,      \* the selected project
    sessionExists,\* local of the running startOrAttachToTmux invocation
    depth,        \* number of startOrAttachToTmux invocations entered
    cmds,         \* external commands executed, oldest first
    stdout,       \* lines printed, oldest first
    exitCode,     \* -1 while running
    cfgPath,      \* local cfgPath of main
    called,       \* history: functions of the program entered so far
    normCalls,    \* history: <<argument, result>> of every normalizePath call
    visits        \* history: every call of the walk callback and its result

vars == <<rev, homeOK, cwdOK, TMUX, cfgFile, configPath, fileBases, projectBase,
          pc, config, baseIdx, walk, ret, walkErrs, projects, project,
          sessionExists, depth, cmds, stdout, exitCode, cfgPath, called,
          normCalls, visits>>

inputs == <<rev, homeOK, cwdOK, TMUX, cfgFile, configPath, fileBases, projectBase>>

(***************************************************************************)
(* Bounds of the model.                                                    *)
(***************************************************************************)
MaxFileBases == 1     \* entries of `base` in the config file
MaxFlagBases == 1     \* occurrences of --base
MaxInvocations == 3   \* startOrAttachToTmux invocations followed

(***************************************************************************)
(* Environment: home directory, working directory, file system.            *)
(***************************************************************************)
Lit(n) == <<n>>
StarStar == <<"*", "*">>
Star == <<"*">>
Brace(n) == <<"{", n, "}">>
\* The path whose segments are the given names.
P(names) == [i \in 1..Len(names) |-> Lit(names[i])]

Home == P(<<"home", "u">>)
Cwd == P(<<"w">>)

\* Entries of the file system in the lexical order in which a walk visits them.
FSOrder ==
    << P(<<"home">>),
       P(<<"home", "u">>),
       P(<<"home", "u", "code">>),
       P(<<"home", "u", "code", ".git">>),
       P(<<"home", "u", "code", "B">>),
       P(<<"home", "u", "code", "B", ".git">>),
       P(<<"home", "u", "code", "a">>),
       P(<<"home", "u", "code", "a", ".git">>),
       P(<<"home", "u", "code", "a", "go.mod">>),
       P(<<"home", "u", "code", "a", "src">>),
       P(<<"w">>) >>

\* The path strings a user may give as base patterns.
BasePatterns ==
    { [pre |-> "~",     segs |-> <<Lit("code"), StarStar, Brace(".git")>>],
      [pre |-> "$HOME", segs |-> <<Lit("code"), StarStar, Brace("go.mod")>>],
      [pre |-> "/",     segs |-> <<Lit("home"), Lit("u"), Lit("code"), Star, Lit("src")>>],
      [pre |-> "/",     segs |-> <<Lit("home"), Lit("u"), Lit("code"), Lit("a")>>],
      [pre |-> "/",     segs |-> <<Lit("home"), Lit("u"), <<"[", "a">>, Star>>] }

DefaultConfigPath ==
    [pre |-> "~", segs |-> <<Lit(".config"), Lit("tmux"), Lit("tmuxer.yaml")>>]
DashConfigPath == [pre |-> "", segs |-> <<Lit("-")>>]

SeqsUpTo(S, n) == UNION { [1..k -> S] : k \in 0..n }

(***************************************************************************)
(* path / filepath helpers of the Go standard library.                     *)
(***************************************************************************)
RECURSIVE CleanFrom(_, _)
\* path.Clean on the segments of a rooted path: "." and empty elements drop,
\* ".." removes the element before it ("/.." is "/").
CleanFrom(done, rest) ==
    IF rest = <<>> THEN done
    ELSE IF Head(rest) \in {Lit("."), Lit(""), Lit("/")} THEN CleanFrom(done, Tail(rest))
    ELSE IF Head(rest) = Lit("..")
         THEN CleanFrom(IF done = <<>> THEN <<>> ELSE SubSeq(done, 1, Len(done) - 1),
                        Tail(rest))
    ELSE CleanFrom(Append(done, Head(rest)), Tail(rest))

\* path.Join(base, name) for an absolute base: Clean(base + "/" + name).
PathJoin(base, name) == CleanFrom(<<>>, base \o name)

\* path.Dir of a relative path: all but the last element, "." when none is left.
PathDir(p) == IF Len(p) <= 1 THEN <<Lit(".")>> ELSE SubSeq(p, 1, Len(p) - 1)

\* path.Base: the last element; "/" for the root.
PathBase(p) == IF p = <<>> THEN <<Lit("/")>> ELSE <<p[Len(p)]>>

\* strings.Contains(p, "/") for a relative path p.
ContainsSlash(p) == Len(p) > 1

RECURSIVE CommonLen(_, _)
CommonLen(a, b) ==
    IF a = <<>> \/ b = <<>> \/ Head(a) # Head(b) THEN 0
    ELSE 1 + CommonLen(Tail(a), Tail(b))

\* filepath.Rel(homedir, fullpath) with fullpath absolute.  homedir is
\* [ok, path]; when UserHomeDir failed it is the empty string, a relative
\* path, and Rel cannot relate it to an absolute target.
FilepathRel(homedir, fullpath) ==
    IF ~homedir.ok THEN [err |-> TRUE, path |-> <<>>]
    ELSE LET n == CommonLen(homedir.path, fullpath)
             ups == [i \in 1..(Len(homedir.path) - n) |-> Lit("..")]
             down == SubSeq(fullpath, n + 1, Len(fullpath))
         IN  [err |-> FALSE,
              path |-> IF ups \o down = <<>> THEN <<Lit(".")>> ELSE ups \o down]

\* os.UserHomeDir(): ($HOME, nil) or ("", error).
UserHomeDir(ok) == [ok |-> ok, path |-> IF ok THEN Home ELSE <<>>]

(***************************************************************************)
(* normalizePath                                                           *)
(***************************************************************************)
\* filepath.Join(homeDir, rest) where rest is what follows "~" or "$HOME":
\* empty, or "/" and segments.  Join drops an empty homeDir, so the rest
\* alone is left: an absolute path, or "" when the rest is empty too.
FilepathJoin(homeDir, rest) ==
    IF homeDir.ok THEN [pre |-> "/", segs |-> CleanFrom(<<>>, homeDir.path \o rest)]
    ELSE IF rest = <<>> THEN [pre |-> "", segs |-> <<>>]
    ELSE [pre |-> "/", segs |-> CleanFrom(<<>>, rest)]

\* filepath.Abs: an absolute path is cleaned; any other is joined to the
\* working directory, and fails when os.Getwd fails.
FilepathAbs(path, cOK) ==
    IF path.pre = "/"
    THEN [err |-> "", path |-> [pre |-> "/", segs |-> CleanFrom(<<>>, path.segs)]]
    ELSE IF cOK
    THEN [err |-> "", path |-> [pre |-> "/", segs |-> CleanFrom(<<>>, Cwd \o path.segs)]]
    ELSE [err |-> "getwd", path |-> [pre |-> "", segs |-> <<>>]]

normalizePath(path, hOK, cOK) ==
    LET p1 == IF path.pre = "~"
              THEN FilepathJoin(UserHomeDir(hOK), path.segs)
              ELSE path
        p2 == IF p1.pre = "$HOME"
              THEN FilepathJoin(UserHomeDir(hOK), p1.segs)
              ELSE p1
    IN  FilepathAbs(p2, cOK)

(***************************************************************************)
(* doublestar: SplitPattern, pattern validation, matching, GlobWalk.       *)
(***************************************************************************)
HasTok(seg, toks) == \E i \in 1..Len(seg) : seg[i] \in toks

\* The characters at which SplitPattern stops scanning.
SplitMeta == {"*", "?", "[", "{"}

\* SplitPattern of an absolute pattern: the base is everything before the
\* last "/" that precedes the first metacharacter (before the last "/" of
\* all when there is none), the pattern what follows that "/".
SplitPattern(p) ==
    LET n == Len(p.segs)
        metas == { i \in 1..n : HasTok(p.segs[i], SplitMeta) }
        first == IF metas = {} THEN n
                 ELSE CHOOSE i \in metas : \A j \in metas : i <= j
    IN  IF n = 0 THEN [base |-> <<>>, pattern |-> <<>>]
        ELSE [base |-> SubSeq(p.segs, 1, first - 1),
              pattern |-> SubSeq(p.segs, first, n)]

\* regex (\*|\*\*|\?|\[.*\]|\{[^}]*\}) finds a match in the segment.
RegexFinds(seg) ==
    \E i \in 1..Len(seg) :
        \/ seg[i] \in {"*", "?"}
        \/ seg[i] = "[" /\ \E j \in (i + 1)..Len(seg) : seg[j] = "]"
        \/ seg[i] = "{" /\ \E j \in (i + 1)..Len(seg) : seg[j] = "}"

\* patternUsed := len(regex.FindStringIndex(path.Base(pattern))) > 0
PatternUsed(pattern) ==
    RegexFinds(IF pattern = <<>> THEN Lit(".") ELSE pattern[Len(pattern)])

\* doublestar.ValidatePattern on one segment: every class and every brace
\* group that opens is closed.
ValidSeg(seg) ==
    \A i \in 1..Len(seg) :
        /\ seg[i] = "[" => \E j \in (i + 1)..Len(seg) : seg[j] = "]"
        /\ seg[i] = "{" => \E j \in (i + 1)..Len(seg) : seg[j] = "}"
ValidatePattern(pattern) == \A i \in 1..Len(pattern) : ValidSeg(pattern[i])

\* One pattern segment against one directory entry name.
SegMatch(seg, name) ==
    IF seg = Star THEN TRUE
    ELSE IF Len(seg) >= 2 /\ seg[1] = "{" /\ seg[Len(seg)] = "}"
    THEN \E i \in 2..(Len(seg) - 1) : seg[i] # "," /\ Lit(seg[i]) = name
    ELSE seg = name

RECURSIVE GlobMatch(_, _)
\* ** stands for zero or more whole segments.
GlobMatch(pattern, p) ==
    IF pattern = <<>> THEN p = <<>>
    ELSE IF Head(pattern) = StarStar
    THEN \/ GlobMatch(Tail(pattern), p)
         \/ p # <<>> /\ GlobMatch(pattern, Tail(p))
    ELSE /\ p # <<>>
         /\ SegMatch(Head(pattern), Head(p))
         /\ GlobMatch(Tail(pattern), Tail(p))

IsUnder(base, e) == Len(e) > Len(base) /\ SubSeq(e, 1, Len(base)) = base

\* The paths, relative to base, that GlobWalk(os.DirFS(base), pattern, fn)
\* passes to fn, in walk order.  [err, todo]: an invalid pattern is
\* ErrBadPattern before anything is visited.
GlobWalkMatches(base, pattern) ==
    IF ~ValidatePattern(pattern) THEN [err |-> TRUE, todo |-> <<>>]
    ELSE LET Hit(e) == IsUnder(base, e)
                       /\ GlobMatch(pattern, SubSeq(e, Len(base) + 1, Len(e)))
             hits == SelectSeq(FSOrder, Hit)
         IN  [err |-> FALSE,
              todo |-> [i \in 1..Len(hits) |->
                          SubSeq(hits[i], Len(base) + 1, Len(hits[i]))]]
(***************************************************************************)
(* findProjectDirectories                                                  *)
(***************************************************************************)
NoProject == [Name |-> <<>>, FullPath |-> <<>>, HomePath |-> <<>>]

\* Result of one call of the walk callback: err is the error it returns,
\* add whether it stores project in the map.
FnError == [err |-> TRUE, add |-> FALSE, project |-> NoProject]
FnSkip == [err |-> FALSE, add |-> FALSE, project |-> NoProject]
FnAdd(name, fullpath, rel) ==
    [err |-> FALSE, add |-> TRUE,
     project |-> [Name |-> name, FullPath |-> fullpath, HomePath |-> rel]]

\* The callback of src/unnamed/part_000.
walkFnPart(base, patternUsed, homedir, p) ==
    LET name == IF patternUsed
                THEN IF ~ContainsSlash(p) THEN PathBase(base) ELSE PathDir(p)
                ELSE p
        fullpath == PathJoin(base, name)
        rel == FilepathRel(homedir, fullpath)
    IN  IF rel.err THEN FnError ELSE FnAdd(name, fullpath, rel.path)

\* The callback of src/main.go.
walkFnMain(base, patternUsed, homedir, p) ==
    IF patternUsed
    THEN LET fullpath == PathJoin(base, PathDir(p))
             rel == FilepathRel(homedir, fullpath)
         IN  IF rel.err THEN FnError ELSE FnAdd(PathDir(p), fullpath, rel.path)
    ELSE FnSkip

\* ret[k] = v on a Go map.
MapPut(m, k, v) == [x \in DOMAIN m \cup {k} |-> IF x = k THEN v ELSE m[x]]

\* Mutant of Insert: the projects are collected without a key per FullPath,
\* as a slice that is appended to would.
InsertAppend(m, proj) == MapPut(m, <<Cardinality(DOMAIN m), proj.FullPath>>, proj)

\* ret[project.FullPath] = project
Insert(m, proj) == MapPut(m, proj.FullPath, proj)

\* Bytes of the names that occur in project names.
Bytes(n) ==
    CASE n = "home"   -> <<104, 111, 109, 101>>
      [] n = "u"      -> <<117>>
      [] n = "code"   -> <<99, 111, 100, 101>>
      [] n = ".git"   -> <<46, 103, 105, 116>>
      [] n = "B"      -> <<66>>
      [] n = "a"      -> <<97>>
      [] n = "go.mod" -> <<103, 111, 46, 109, 111, 100>>
      [] n = "src"    -> <<115, 114, 99>>
      [] n = "w"      -> <<119>>
      [] n = "."      -> <<46>>
      [] n = ".."     -> <<46, 46>>
      [] n = "/"      -> <<47>>
      [] OTHER        -> <<>>

RECURSIVE NameBytes(_)
\* The bytes of a name: its segments with "/" between them.
NameBytes(name) ==
    IF name = <<>> THEN <<>>
    ELSE IF Len(name) = 1 THEN Bytes(name[1][1])
    ELSE Bytes(name[1][1]) \o <<47>> \o NameBytes(Tail(name))

\* strings.ToLower on bytes: A..Z become a..z.
ToLower(bs) == [i \in 1..Len(bs) |-> IF bs[i] >= 65 /\ bs[i] <= 90 THEN bs[i] + 32 ELSE bs[i]]

RECURSIVE StrGreater(_, _)
\* a > b on Go strings: bytewise, a proper prefix is the smaller.
StrGreater(a, b) ==
    IF a = <<>> THEN FALSE
    ELSE IF b = <<>> THEN TRUE
    ELSE IF Head(a) # Head(b) THEN Head(a) > Head(b)
    ELSE StrGreater(Tail(a), Tail(b))

\* The less function given to sort.Slice.
SortLess(x, y) == StrGreater(ToLower(NameBytes(x.Name)), ToLower(NameBytes(y.Name)))

\* The slices the loop over the map can fill: Go iterates a map in an
\* unspecified order.
SlicesOf(m) ==
    { s \in [1..Cardinality(DOMAIN m) -> DOMAIN m] :
        \A i, j \in 1..Cardinality(DOMAIN m) : i # j => s[i] # s[j] }

\* sort.Slice(res, less) leaves an order in which no element is less than
\* one before it; elements that compare equal keep no particular order.
Sorted(res) == \A i, j \in 1..Len(res) : i < j => ~SortLess(res[j], res[i])

\* The slices findProjectDirectories can return for the map m.
Results(r, m) ==
    LET all == { [i \in 1..Len(s) |-> m[s[i]]] : s \in SlicesOf(m) }
    IN  IF r = "part" THEN { res \in all : Sorted(res) } ELSE all
(***************************************************************************)
(* main, up to the selection of a project.                                 *)
(***************************************************************************)
NoWalk == [base |-> <<>>, pattern |-> <<>>, patternUsed |-> FALSE, todo |-> <<>>]
NoPath == [pre |-> "", segs |-> <<>>]
Line(text, arg) == [text |-> text, arg |-> arg]

\* fmt.Println("Error: ", err); os.Exit(1)
Fail(text) ==
    /\ stdout' = Append(stdout, Line(text, <<>>))
    /\ exitCode' = 1
    /\ pc' = "exit"

DiscoveryInit ==
    /\ rev \in {"part", "main"}
    /\ homeOK \in BOOLEAN
    /\ cwdOK \in BOOLEAN
    /\ TMUX = FALSE
    /\ cfgFile \in {"missing", "invalid", "ok"}
    /\ configPath \in {DefaultConfigPath, DashConfigPath}
    /\ fileBases \in SeqsUpTo(BasePatterns, MaxFileBases)
    /\ cfgFile # "ok" => fileBases = <<>>
    /\ projectBase \in SeqsUpTo(BasePatterns, MaxFlagBases)
    /\ pc = "main"
    /\ config = <<>>
    /\ baseIdx = 1
    /\ walk = NoWalk
    /\ ret = <<>>
    /\ walkErrs = {}
    /\ projects = <<>>
    /\ project = NoProject
    /\ sessionExists = FALSE
    /\ depth = 0
    /\ cmds = <<>>
    /\ stdout = <<>>
    /\ exitCode = -1
    /\ cfgPath = NoPath
    /\ called = {}
    /\ normCalls = <<>>
    /\ visits = <<>>

\* main: pflag.Parse(); cfgPath, err := normalizePath(*configPath)
NormalizeConfigPath ==
    /\ pc = "main"
    /\ LET r == normalizePath(configPath, homeOK, cwdOK)
       IN  /\ normCalls' = Append(normCalls, <<configPath, r>>)
           /\ called' = called \cup {"normalizePath"}
           /\ IF r.err # ""
              THEN Fail("Error: ") /\ UNCHANGED cfgPath
              ELSE /\ cfgPath' = r.path
                   /\ pc' = "loadConfig"
                   /\ UNCHANGED <<stdout, exitCode>>
    /\ UNCHANGED <<inputs, config, baseIdx, walk, ret, walkErrs, projects, project,
                   sessionExists, depth, cmds, visits>>

\* configPath == "" || configPath == "-"
SkipsConfigFile(path) ==
    path.pre = "" /\ (path.segs = <<>> \/ path.segs = <<Lit("-")>>)

\* loadConfig(configPath): [err, bases]
loadConfig(path, file, bases) ==
    IF SkipsConfigFile(path) THEN [err |-> FALSE, bases |-> <<>>]
    ELSE IF file = "missing" THEN [err |-> TRUE, bases |-> <<>>]
    ELSE IF file = "invalid" THEN [err |-> TRUE, bases |-> <<>>]
    ELSE [err |-> FALSE, bases |-> bases]

\* main: config, err = loadConfig(cfgPath)
LoadConfig ==
    /\ pc = "loadConfig"
    /\ called' = called \cup {"loadConfig"}
    /\ LET r == loadConfig(cfgPath, cfgFile, fileBases)
       IN  IF r.err
           THEN Fail("Error: ") /\ UNCHANGED config
           ELSE /\ config' = r.bases
                /\ pc' = "merge"
                /\ UNCHANGED <<stdout, exitCode>>
    /\ UNCHANGED <<inputs, baseIdx, walk, ret, walkErrs, projects, project,
                   sessionExists, depth, cmds, cfgPath, normCalls, visits>>

\* mergeFlagsWithConfig: the --base values are appended; it returns nil.
mergeFlagsWithConfig(bases, flags) ==
    IF Len(flags) > 0 THEN bases \o flags ELSE bases

MergeFlagsWithConfig ==
    /\ pc = "merge"
    /\ called' = called \cup {"mergeFlagsWithConfig"}
    /\ config' = mergeFlagsWithConfig(config, projectBase)
    /\ pc' = "checkBase"
    /\ UNCHANGED <<inputs, baseIdx, walk, ret, walkErrs, projects, project,
                   sessionExists, depth, cmds, stdout, exitCode, cfgPath,
                   normCalls, visits>>

\* Mutant of CheckProjectBase: the length test is missing.
CheckProjectBaseAbsent ==
    /\ pc = "checkBase"
    /\ pc' = "normalize"
    /\ UNCHANGED <<inputs, config, baseIdx, walk, ret, walkErrs, projects, project,
                   sessionExists, depth, cmds, stdout, exitCode, cfgPath, called,
                   normCalls, visits>>

\* main: if len(config.ProjectBase) == 0 { ...; os.Exit(1) }
CheckProjectBase ==
    /\ pc = "checkBase"
    /\ IF Len(config) = 0
       THEN Fail("Error: No project base path provided")
       ELSE pc' = "normalize" /\ UNCHANGED <<stdout, exitCode>>
    /\ UNCHANGED <<inputs, config, baseIdx, walk, ret, walkErrs, projects, project,
                   sessionExists, depth, cmds, cfgPath, called, normCalls, visits>>

\* The normalizePath calls of the loop of NormalizePaths: it stops at the
\* first error.
NormResults(bases) == [i \in 1..Len(bases) |-> normalizePath(bases[i], homeOK, cwdOK)]
FirstNormError(bases) ==
    LET bad == { i \in 1..Len(bases) : NormResults(bases)[i].err # "" }
    IN  IF bad = {} THEN 0 ELSE CHOOSE i \in bad : \A j \in bad : i <= j

\* main: if err := config.NormalizePaths(); err != nil { ...; os.Exit(1) }
NormalizePaths ==
    /\ pc = "normalize"
    /\ called' = called \cup {"NormalizePaths", "normalizePath"}
    /\ LET res == NormResults(config)
           k == FirstNormError(config)
           n == IF k = 0 THEN Len(config) ELSE k
       IN  /\ normCalls' = normCalls \o [i \in 1..n |-> <<config[i], res[i]>>]
           /\ config' = [i \in 1..Len(config) |->
                           IF k = 0 \/ i < k THEN res[i].path ELSE config[i]]
           /\ IF k # 0
              THEN Fail("Error: Failed to normalize config path: ")
              ELSE pc' = "find" /\ UNCHANGED <<stdout, exitCode>>
    /\ UNCHANGED <<inputs, baseIdx, walk, ret, walkErrs, projects, project,
                   sessionExists, depth, cmds, cfgPath, visits>>

\* The callback of the revision that runs.
walkFn(r, base, patternUsed, homedir, p) ==
    IF r = "part" THEN walkFnPart(base, patternUsed, homedir, p)
    ELSE walkFnMain(base, patternUsed, homedir, p)

\* findProjectDirectories, head of the loop body: split the base pattern,
\* classify it, and let GlobWalk validate the pattern and find its matches.
\* The error GlobWalk returns is dropped by the caller.
StartWalk ==
    /\ pc = "find"
    /\ baseIdx <= Len(config)
    /\ called' = called \cup {"findProjectDirectories"}
    /\ LET sp == SplitPattern(config[baseIdx])
           gw == GlobWalkMatches(sp.base, sp.pattern)
       IN  IF gw.err
           THEN /\ walkErrs' = walkErrs \cup {baseIdx}
                /\ baseIdx' = baseIdx + 1
                /\ UNCHANGED <<walk, pc>>
           ELSE /\ walk' = [base |-> sp.base, pattern |-> sp.pattern,
                            patternUsed |-> PatternUsed(sp.pattern),
                            todo |-> gw.todo]
                /\ pc' = "walk"
                /\ UNCHANGED <<walkErrs, baseIdx>>
    /\ UNCHANGED <<inputs, config, ret, projects, project, sessionExists, depth,
                   cmds, stdout, exitCode, cfgPath, normCalls, visits>>

\* One call of the callback by GlobWalk.  An error it returns ends the walk
\* of this base pattern.
WalkFn ==
    /\ pc = "walk"
    /\ walk.todo # <<>>
    /\ LET r == walkFn(rev, walk.base, walk.patternUsed, UserHomeDir(homeOK),
                       Head(walk.todo))
       IN  /\ visits' = Append(visits, [idx |-> baseIdx, base |-> walk.base,
                                        used |-> walk.patternUsed,
                                        p |-> Head(walk.todo), res |-> r])
           /\ IF r.err
              THEN /\ walkErrs' = walkErrs \cup {baseIdx}
                   /\ walk' = [walk EXCEPT !.todo = <<>>]
                   /\ UNCHANGED ret
              ELSE /\ walk' = [walk EXCEPT !.todo = Tail(walk.todo)]
                   /\ ret' = IF r.add THEN Insert(ret, r.project) ELSE ret
                   /\ UNCHANGED walkErrs
    /\ UNCHANGED <<inputs, pc, config, baseIdx, projects, project, sessionExists,
                   depth, cmds, stdout, exitCode, cfgPath, called, normCalls>>

\* GlobWalk returns; the loop goes on to the next base pattern.
EndWalk ==
    /\ pc = "walk"
    /\ walk.todo = <<>>
    /\ baseIdx' = baseIdx + 1
    /\ walk' = NoWalk
    /\ pc' = "find"
    /\ UNCHANGED <<inputs, config, ret, walkErrs, projects, project, sessionExists,
                   depth, cmds, stdout, exitCode, cfgPath, called, normCalls,
                   visits>>

\* findProjectDirectories, after the loop: the map is copied to a slice
\* (and sorted, in part_000) and returned with a nil error.
Collect ==
    /\ pc = "find"
    /\ baseIdx > Len(config)
    /\ projects' \in Results(rev, ret)
    /\ pc' = "select"
    /\ UNCHANGED <<inputs, config, baseIdx, walk, ret, walkErrs, project,
                   sessionExists, depth, cmds, stdout, exitCode, cfgPath, called,
                   normCalls, visits>>

\* main: projectDir, err := selectProjectDirectory(projects).  The finder
\* returns an index of the slice, or an error when the user aborts.
SelectProjectDirectory ==
    /\ pc = "select"
    /\ called' = called \cup {"selectProjectDirectory"}
    /\ \/ /\ Fail("Error:")
          /\ UNCHANGED project
       \/ \E idx \in 1..Len(projects) :
            /\ project' = projects[idx]
            /\ stdout' = Append(stdout, Line("Starting selected project: ",
                                             projects[idx].Name))
            /\ pc' = "tmux"
            /\ UNCHANGED exitCode
    /\ UNCHANGED <<inputs, config, baseIdx, walk, ret, walkErrs, projects,
                   sessionExists, depth, cmds, cfgPath, normCalls, visits>>

DiscoveryNext ==
    \/ NormalizeConfigPath
    \/ LoadConfig
    \/ MergeFlagsWithConfig
    \/ CheckProjectBase
    \/ NormalizePaths
    \/ StartWalk
    \/ WalkFn
    \/ EndWalk
    \/ Collect
    \/ SelectProjectDirectory

Spec == DiscoveryInit /\ [][DiscoveryNext]_vars

(***************************************************************************)
(* startOrAttachToTmux and the end of main.                                *)
(***************************************************************************)
\* The process started by exec.Command(...).Run / CombinedOutput.
Cmd(prog, sub, t, c) == [prog |-> prog, sub |-> sub, t |-> t, c |-> c]

\* runTmuxCommand: part_000 executes tmux itself, main.go executes
\* sh -c "tmux <cmdName> <args>".
runTmuxCommand(r, cmdName, t, c) ==
    Cmd(IF r = "part" THEN "tmux" ELSE "sh", cmdName, t, c)

\* The projects selectProjectDirectory can hand over in revision r.
ProjectsOf(r) ==
    { walkFn(r, P(<<"home", "u", "code">>), used, UserHomeDir(TRUE), p).project :
        used \in BOOLEAN,
        p \in {P(<<".git">>), P(<<"a", ".git">>), P(<<"a", "src">>)} }
    \ {NoProject}

TmuxInit ==
    /\ rev \in {"part", "main"}
    /\ TMUX \in BOOLEAN
    /\ project \in ProjectsOf(rev)
    /\ pc = "tmux"
    /\ homeOK = TRUE
    /\ cwdOK = TRUE
    /\ cfgFile = "ok"
    /\ configPath = DefaultConfigPath
    /\ fileBases = <<>>
    /\ projectBase = <<>>
    /\ config = <<>>
    /\ baseIdx = 1
    /\ walk = NoWalk
    /\ ret = <<>>
    /\ walkErrs = {}
    /\ projects = <<project>>
    /\ sessionExists = FALSE
    /\ depth = 0
    /\ cmds = <<>>
    /\ stdout = <<Line("Starting selected project: ", project.Name)>>
    /\ exitCode = -1
    /\ cfgPath = NoPath
    /\ called = {"selectProjectDirectory"}
    /\ normCalls = <<>>
    /\ visits = <<>>

discovery == <<inputs, config, baseIdx, walk, ret, walkErrs, projects, project,
               cfgPath, normCalls, visits>>

\* startOrAttachToTmux up to the switch: run tmux list-sessions, print
\* whether its output says "no server running", return an error when it
\* failed for another reason, else look for project.Name in its lines.
\* err: the command failed; noServer, contains: what its output holds.
\* main.go then runs reset.
ListSessions ==
    /\ pc = "tmux"
    /\ called' = called \cup {"startOrAttachToTmux"}
    /\ depth' = depth + 1
    /\ \E err, noServer, contains \in BOOLEAN :
         LET listed == Append(cmds, Cmd("tmux", "list-sessions", <<>>, <<>>))
             printed == Append(stdout, Line(IF noServer THEN "true" ELSE "false", <<>>))
         IN  IF err /\ ~noServer
             THEN /\ cmds' = listed
                  /\ stdout' = Append(printed, Line("Error:", <<>>))
                  /\ exitCode' = 1
                  /\ pc' = "exit"
                  /\ UNCHANGED sessionExists
             ELSE /\ sessionExists' = contains
                  /\ cmds' = IF rev = "main"
                             THEN Append(listed, Cmd("reset", "", <<>>, <<>>))
                             ELSE listed
                  /\ stdout' = printed
                  /\ pc' = "switch"
                  /\ UNCHANGED exitCode
    /\ UNCHANGED discovery

\* How part_000 ends in a tmux command: its exit status is that of main.
RunAndExit(c) ==
    /\ cmds' = Append(cmds, c)
    /\ \E ok \in BOOLEAN :
         IF ok THEN exitCode' = 0 /\ UNCHANGED stdout
         ELSE exitCode' = 1 /\ stdout' = Append(stdout, Line("Error:", <<>>))
    /\ pc' = "exit"

\* How main.go ends: it prints the command line and returns nil.
PrintAndExit(text) ==
    /\ stdout' = Append(stdout, Line(text, project.Name))
    /\ exitCode' = 0
    /\ pc' = "exit"
    /\ UNCHANGED cmds

\* case sessionExists && inTmux
SwitchClient ==
    /\ pc = "switch"
    /\ sessionExists /\ TMUX
    /\ IF rev = "part"
       THEN RunAndExit(runTmuxCommand(rev, "switch-client", project.Name, <<>>))
       ELSE PrintAndExit("tmux switch-client -t ")
    /\ UNCHANGED <<discovery, sessionExists, depth, called>>

\* case sessionExists
AttachSession ==
    /\ pc = "switch"
    /\ sessionExists /\ ~TMUX
    /\ IF rev = "part"
       THEN RunAndExit(runTmuxCommand(rev, "attach-session", project.Name, <<>>))
       ELSE PrintAndExit("tmux attach-session -t ")
    /\ UNCHANGED <<discovery, sessionExists, depth, called>>

\* default: new-session -d -s Name -c FullPath, then the function calls
\* itself.  The model follows MaxInvocations invocations.
NewSession ==
    /\ pc = "switch"
    /\ ~sessionExists
    /\ depth < MaxInvocations
    /\ cmds' = Append(cmds, runTmuxCommand(rev, "new-session", project.Name,
                                           project.FullPath))
    /\ \E ok \in BOOLEAN :
         IF ok THEN pc' = "tmux" /\ UNCHANGED <<stdout, exitCode>>
         ELSE /\ stdout' = Append(stdout, Line("Error:", <<>>))
              /\ exitCode' = 1
              /\ pc' = "exit"
    /\ UNCHANGED <<discovery, sessionExists, depth, called>>

TmuxNext ==
    \/ ListSessions
    \/ SwitchClient
    \/ AttachSession
    \/ NewSession

SpecTmux == TmuxInit /\ [][TmuxNext]_vars

(***************************************************************************)
(* Properties.                                                             *)
(***************************************************************************)
\* findProjectDirectories has returned.
Returned == pc \in {"select", "tmux"} \/ "selectProjectDirectory" \in called

\* The calls of the callback that stored a project.
Stored == { k \in 1..Len(visits) : visits[k].res.add }

Occurrences(fullpath) ==
    Cardinality({ i \in 1..Len(projects) : projects[i].FullPath = fullpath })

\* C1: the list findProjectDirectories returns holds every FullPath that a
\* match produced exactly once, and nothing else, however many base patterns
\* or matches produced that FullPath.
C1_DedupByFullPath ==
    Returned =>
        /\ \A k \in Stored : Occurrences(visits[k].res.project.FullPath) = 1
        /\ \A i \in 1..Len(projects) :
             \E k \in Stored : visits[k].res.project.FullPath = projects[i].FullPath

\* Witness of C1: the list was returned after two different base patterns
\* produced the same FullPath.
C1_Witness ==
    /\ Returned
    /\ \E k1, k2 \in Stored :
         /\ visits[k1].idx # visits[k2].idx
         /\ visits[k1].res.project.FullPath = visits[k2].res.project.FullPath

NewSessions == { k \in 1..Len(cmds) : cmds[k].sub = "new-session" }
ListCalls == { k \in 1..Len(cmds) : cmds[k].sub = "list-sessions" }

\* C2: one invocation of startOrAttachToTmux by main issues at most one
\* new-session command and lists the sessions at most once after it.
C2_OneCreateOneRecheck ==
    /\ Cardinality(NewSessions) <= 1
    /\ \A n \in NewSessions : Cardinality({ k \in ListCalls : k > n }) <= 1

\* C3: when the session list holds the project's name and TMUX is empty,
\* the invocation ends having executed attach-session -t Name as its last
\* command, without a new-session command since it listed the sessions.
C3_AttachExisting ==
    (pc = "exit" /\ sessionExists /\ ~TMUX) =>
        /\ cmds[Len(cmds)].sub = "attach-session"
        /\ cmds[Len(cmds)].t = project.Name
        /\ \A n \in NewSessions : \E k \in ListCalls : k > n

\* C4: a project stored for a match p of a pattern whose last segment is a
\* glob has as FullPath the base directory joined with p less its last segment.
C4_MarkerParentIsRoot ==
    \A k \in Stored :
        visits[k].used =>
            visits[k].res.project.FullPath =
                visits[k].base \o SubSeq(visits[k].p, 1, Len(visits[k].p) - 1)

\* C5: a project stored for a marker directly under the base directory is
\* named after the last segment of the base directory, never "" or ".".
C5_DegenerateMarkerName ==
    \A k \in Stored :
        (visits[k].used /\ Len(visits[k].p) = 1 /\ visits[k].base # <<>>) =>
            /\ visits[k].res.project.Name =
                   <<visits[k].base[Len(visits[k].base)]>>
            /\ visits[k].res.project.Name \notin {<<>>, <<Lit("")>>, <<Lit(".")>>}

\* C6: every match of a pattern whose last segment has no glob
\* metacharacter, for which the callback returns no error, is stored with
\* the match as Name and the base directory joined with it as FullPath.
C6_LiteralPassthrough ==
    \A k \in 1..Len(visits) :
        (~visits[k].used /\ ~visits[k].res.err) =>
            /\ visits[k].res.add
            /\ visits[k].res.project.Name = visits[k].p
            /\ visits[k].res.project.FullPath = visits[k].base \o visits[k].p

\* C8: a missing config file is no error: loadConfig yields an empty
\* config and main goes on to merge the --base flags.
C8_MissingConfigIsNoError ==
    (cfgFile = "missing" /\ "loadConfig" \in called
       /\ "mergeFlagsWithConfig" \notin called) =>
        pc = "merge" /\ config = <<>> /\ exitCode = -1

\* A line that reports an error has been printed.
ErrorLines == { l \in 1..Len(stdout) : stdout[l].text \in
                  {"Error: ", "Error:", "Error: Failed to normalize config path: ",
                   "Error: No project base path provided"} }

\* C9: when findProjectDirectories has just returned, a walk that failed
\* has been reported, and every project stored for a base pattern whose
\* walk did not fail is in the result.
C9_WalkErrorReportedNotFatal ==
    pc = "select" =>
        /\ walkErrs # {} => ErrorLines # {}
        /\ \A k \in Stored :
             visits[k].idx \notin walkErrs =>
                 Occurrences(visits[k].res.project.FullPath) >= 1

\* C10: a normalizePath call whose argument starts with ~ or $HOME fails
\* with a home-resolution error when the home directory is unknown, and no
\* other call fails with that error.
C10_HomeResolutionError ==
    \A k \in 1..Len(normCalls) :
        LET homeRelative == normCalls[k][1].pre \in {"~", "$HOME"}
        IN  /\ (homeRelative /\ ~homeOK) => normCalls[k][2].err = "home"
            /\ ~homeRelative => normCalls[k][2].err # "home"
====
